---- MODULE Spec2Model ----
(***************************************************************************)
(* rookie: the dispatch layer of src/lib.rs.                               *)
(*                                                                         *)
(* The library functions are synchronous and keep no state between calls,  *)
(* so the machine is: an environment (target OS, files on disk, OS         *)
(* keystore) fixed at Init, and one action per public function that runs   *)
(* the whole call and records its arguments, its return value and the      *)
(* trace of the resolver / decoder invocations it made.                    *)
(*                                                                         *)
(* The path resolver (common::paths) and the store decoders                *)
(* (browser::chromium, browser::mozilla, browser::safari,                  *)
(* browser::internet_explorer) are not part of lib.rs; they are modelled   *)
(* from the design document.                                               *)
(***************************************************************************)
EXTENDS Integers, Sequences, FiniteSets, TLC

VARIABLES os, candidates, files, keyring, call, result, log

vars == <<os, candidates, files, keyring, call, result, log>>

env == <<os, candidates, files, keyring>>

----------------------------------------------------------------------------
(* Bounds of the model *)

\* Profiles a browser's glob patterns can match (multi-profile environment).
MaxProfiles == 2

\* Browsers that have a profile on the machine (whole-library environment).
MaxInstalled == 2

----------------------------------------------------------------------------
(* Values *)

OSes == {"windows", "linux", "macos"}

\* cfg(unix) holds on the linux and macos targets.
Unix == os \in {"linux", "macos"}

FIREFOX_CONFIG == "firefox"
LIBRE_WOLF_CONFIG == "libre_wolf"
CHROME_CONFIG == "chrome"
CHROMIUM_CONFIG == "chromium"
BRAVE_CONFIG == "brave"
EDGE_CONFIG == "edge"
VIVALDI_CONFIG == "vivaldi"
OPERA_CONFIG == "opera"
OPERA_GX_CONFIG == "opera_gx"
SAFARI_CONFIG == "safari"
IE_CONFIG == "ie"

MozillaConfigs == {FIREFOX_CONFIG, LIBRE_WOLF_CONFIG}

ChromiumConfigs == {CHROME_CONFIG, CHROMIUM_CONFIG, BRAVE_CONFIG, EDGE_CONFIG,
                    VIVALDI_CONFIG, OPERA_CONFIG, OPERA_GX_CONFIG}

Configs == MozillaConfigs \cup ChromiumConfigs \cup {SAFARI_CONFIG, IE_CONFIG}

\* Some(list) / None for the `domains` argument.
Some(l) == [some |-> TRUE, list |-> l]

None == [some |-> FALSE, list |-> <<>>]

\* A path: <root of a browser configuration>/<dir>/<prof>/<file>; prof = 0 is
\* the user-data directory itself.
Path(c, d, p, f) == [cfg |-> c, dir |-> d, prof |-> p, file |-> f]

NoPath == Path("", 0, 0, "")

\* Option<&str> for key_path.
SomePath(p) == [some |-> TRUE, path |-> p]

NonePath == [some |-> FALSE, path |-> NoPath]

\* Path::parent() / Path::join()
Parent(p) == [cfg |-> p.cfg, dir |-> p.dir, prof |-> p.prof]

Join(d, f) == Path(d.cfg, d.dir, d.prof, f)

\* The two shapes of chromium_based's first argument: a BrowserConfig (unix)
\* or the path of the key file (PathBuf).
KeyConfig(c) == [via |-> "config", cfg |-> c, path |-> NoPath]

KeyPath(p) == [via |-> "path", cfg |-> "", path |-> p]

NoKey == [via |-> "", cfg |-> "", path |-> NoPath]

\* Result<T>
Ok(v, l) == [ok |-> TRUE, val |-> v, err |-> "", log |-> l]

Err(e, l) == [ok |-> FALSE, val |-> <<>>, err |-> e, log |-> l]

\* One line of the invocation trace.
Event(kind, fn, key, path, domains, okf) ==
    [kind |-> kind, fn |-> fn, key |-> key, path |-> path, domains |-> domains, okf |-> okf]

----------------------------------------------------------------------------
(* Cookies, stores and the other files on disk *)

Cookie(d, n) == [domain |-> d, name |-> n]

\* Host names are strings of characters, so that the suffix rule of the
\* domain filter is computed and not assumed.
RowsEmpty == <<>>

RowsA == << Cookie(<<".", "a">>, "sid"), Cookie(<<"x", "a">>, "t") >>

RowsB == << Cookie(<<"x", ".", "b">>, "u"), Cookie(<<"c">>, "v"), Cookie(<<"a">>, "w") >>

RowSamples == {RowsA, RowsB}

DomainArgs == {None, Some(<< <<"b">>, <<"a">> >>)}

NoTables == [t \in {} |-> <<>>]

Sqlite(t) == [fmt |-> "sqlite", tables |-> t, text |-> <<>>]

ChromiumStore(rows) == Sqlite([t \in {"cookies"} |-> rows])

MozillaStore(rows) == Sqlite([t \in {"moz_cookies"} |-> rows])

BinaryCookies(rows) == [fmt |-> "binarycookies", tables |-> [t \in {"pages"} |-> rows], text |-> <<>>]

WebCache(rows) == [fmt |-> "ese", tables |-> [t \in {"CookieEntryEx"} |-> rows], text |-> <<>>]

\* A Local State file holding a usable os_crypt.encrypted_key.
LocalState == [fmt |-> "json", tables |-> NoTables, text |-> <<>>]

\* A UTF-8 text file.
TextFile(t) == [fmt |-> "text", tables |-> NoTables, text |-> t]

\* Bytes that are none of the above (not even UTF-8).
Junk == [fmt |-> "junk", tables |-> NoTables, text |-> <<>>]

Exists(p) == p \in DOMAIN files

HasTable(p, t) == Exists(p) /\ files[p].fmt = "sqlite" /\ t \in DOMAIN files[p].tables

\* The store a browser of configuration c keeps its cookies in.
StoreOf(c, rows) ==
    IF c \in MozillaConfigs THEN MozillaStore(rows)
    ELSE IF c = SAFARI_CONFIG THEN BinaryCookies(rows)
    ELSE IF c = IE_CONFIG THEN WebCache(rows)
    ELSE ChromiumStore(rows)

----------------------------------------------------------------------------
(* Record normalizer: the domains filter *)

\* H = d, or d is a suffix of H preceded by "."
DomainMatches(H, d) ==
    \/ H = d
    \/ /\ Len(H) > Len(d)
       /\ SubSeq(H, Len(H) - Len(d) + 1, Len(H)) = d
       /\ H[Len(H) - Len(d)] = "."

MatchesAny(H, list) == \E i \in 1..Len(list) : DomainMatches(H, list[i])

Keep(c, domains) == ~domains.some \/ MatchesAny(c.domain, domains.list)

FilterRows(rows, domains) == SelectSeq(rows, LAMBDA c : Keep(c, domains))

----------------------------------------------------------------------------
(* Store decoders *)

\* Key Vault: the master key of a Chromium store, from the OS keystore when
\* the decoder is given a configuration, from the key file when it is given
\* a path.
KeyAvailable(key) ==
    IF key.via = "config" THEN key.cfg \in keyring
    ELSE Exists(key.path) /\ files[key.path].fmt = "json"

chromium_based(key, db_path, domains) ==
    LET ev(okf) == <<Event("decode", "chromium_based", key, db_path, domains, okf)>>
    IN  IF ~KeyAvailable(key) THEN Err("KeyNotFound", ev(FALSE))
        ELSE IF ~HasTable(db_path, "cookies") THEN Err("StoreCorrupt", ev(FALSE))
        ELSE Ok(FilterRows(files[db_path].tables["cookies"], domains), ev(TRUE))

firefox_based(db_path, domains) ==
    LET ev(okf) == <<Event("decode", "firefox_based", NoKey, db_path, domains, okf)>>
    IN  IF ~HasTable(db_path, "moz_cookies") THEN Err("StoreCorrupt", ev(FALSE))
        ELSE Ok(FilterRows(files[db_path].tables["moz_cookies"], domains), ev(TRUE))

safari_based(db_path, domains) ==
    LET ev(okf) == <<Event("decode", "safari_based", NoKey, db_path, domains, okf)>>
    IN  IF ~(Exists(db_path) /\ files[db_path].fmt = "binarycookies")
        THEN Err("StoreCorrupt", ev(FALSE))
        ELSE Ok(FilterRows(files[db_path].tables["pages"], domains), ev(TRUE))

internet_explorer_based(db_path, domains) ==
    LET ev(okf) == <<Event("decode", "internet_explorer_based", NoKey, db_path, domains, okf)>>
    IN  IF ~(Exists(db_path) /\ files[db_path].fmt = "ese")
        THEN Err("StoreCorrupt", ev(FALSE))
        ELSE Ok(FilterRows(files[db_path].tables["CookieEntryEx"], domains), ev(TRUE))

----------------------------------------------------------------------------
(* Path resolver *)

KeyFileOf(c) == IF c \in MozillaConfigs THEN "key4.db" ELSE "Local State"

\* The (key file, cookie store) pair of the profile in user-data directory k.
ProfilePaths(c, k) ==
    [key |-> Path(c, k, 0, KeyFileOf(c)), db |-> Path(c, k, 1, "Cookies")]

\* Paths are ordered component by component.
PathLess(p, q) == p.dir < q.dir \/ (p.dir = q.dir /\ p.prof < q.prof)

RECURSIVE SortByPath(_, _)
SortByPath(c, ks) ==
    IF ks = {} THEN <<>>
    ELSE LET k == CHOOSE x \in ks :
                      \A y \in ks \ {x} :
                          PathLess(ProfilePaths(c, x).db, ProfilePaths(c, y).db)
         IN  <<ProfilePaths(c, k)>> \o SortByPath(c, ks \ {k})

Resolve(fn, c) ==
    LET ev(okf) == <<Event("resolve", fn, KeyConfig(c), NoPath, None, okf)>>
    IN  IF candidates[c] = {} THEN Err("PathNotFound", ev(FALSE))
        ELSE Ok(SortByPath(c, candidates[c]), ev(TRUE))

\* Single-profile callers get the first match.
First(r) == IF r.ok THEN [r EXCEPT !.val = r.val[1]] ELSE r

find_chrome_based_paths(c) == First(Resolve("find_chrome_based_paths", c))

find_chrome_based_paths_v2(c) == Resolve("find_chrome_based_paths_v2", c)

find_mozilla_based_paths(c) == First(Resolve("find_mozilla_based_paths", c))

find_safari_based_paths(c) == First(Resolve("find_safari_based_paths", c))

find_ie_based_paths(c) == First(Resolve("find_ie_based_paths", c))

----------------------------------------------------------------------------
(* lib.rs: the per-browser entry points *)

\* `let x = f()?; g(x)`: g's result, after f's invocations.
After(r, d) == [d EXCEPT !.log = r.log \o @]

mozilla_entry(config, domains) ==
    LET r == find_mozilla_based_paths(config)
    IN  IF ~r.ok THEN r
        ELSE After(r, firefox_based(r.val.db, domains))

\* An entry point that goes on to the default profile when the resolver fails.
chromium_entry_unguarded(config, domains) ==
    LET r == find_chrome_based_paths(config)
        paths == IF r.ok THEN r.val ELSE ProfilePaths(config, 1)
    IN  IF os = "windows"
        THEN After(r, chromium_based(KeyPath(paths.key), paths.db, domains))
        ELSE After(r, chromium_based(KeyConfig(config), paths.db, domains))

\* The body shared by chrome, chromium, brave, edge, vivaldi, opera and
\* opera_gx: on windows the decoder gets the key file's path, elsewhere the
\* configuration.
chromium_entry(config, domains) ==
    LET r == find_chrome_based_paths(config)
    IN  IF ~r.ok THEN r
        ELSE IF os = "windows"
             THEN After(r, chromium_based(KeyPath(r.val.key), r.val.db, domains))
             ELSE After(r, chromium_based(KeyConfig(config), r.val.db, domains))

firefox(domains) == mozilla_entry(FIREFOX_CONFIG, domains)

libre_wolf(domains) == mozilla_entry(LIBRE_WOLF_CONFIG, domains)

chrome(domains) == chromium_entry(CHROME_CONFIG, domains)

chromium(domains) == chromium_entry(CHROMIUM_CONFIG, domains)

brave(domains) == chromium_entry(BRAVE_CONFIG, domains)

edge(domains) == chromium_entry(EDGE_CONFIG, domains)

vivaldi(domains) == chromium_entry(VIVALDI_CONFIG, domains)

opera(domains) == chromium_entry(OPERA_CONFIG, domains)

opera_gx(domains) == chromium_entry(OPERA_GX_CONFIG, domains)

\* windows only
octo_browser(domains) ==
    LET r == find_chrome_based_paths(OPERA_GX_CONFIG)
    IN  IF ~r.ok THEN r
        ELSE After(r, chromium_based(KeyPath(r.val.key), r.val.db, domains))

\* macos only
safari(domains) ==
    LET r == find_safari_based_paths(SAFARI_CONFIG)
    IN  IF ~r.ok THEN r
        ELSE After(r, safari_based(r.val.db, domains))

\* windows only
internet_explorer(domains) ==
    LET r == find_ie_based_paths(IE_CONFIG)
    IN  IF ~r.ok THEN r
        ELSE After(r, internet_explorer_based(r.val.db, domains))

\* The public single-profile functions the library has on the target OS.
Exposed ==
    {"firefox", "libre_wolf", "chrome", "chromium", "brave", "edge", "vivaldi",
     "opera", "opera_gx"}
    \cup (IF os = "windows" THEN {"octo_browser", "internet_explorer"} ELSE {})
    \cup (IF os = "macos" THEN {"safari"} ELSE {})

\* Calling a function value.
Invoke(fn, domains) ==
    CASE fn = "firefox" -> firefox(domains)
      [] fn = "libre_wolf" -> libre_wolf(domains)
      [] fn = "chrome" -> chrome(domains)
      [] fn = "chromium" -> chromium(domains)
      [] fn = "brave" -> brave(domains)
      [] fn = "edge" -> edge(domains)
      [] fn = "vivaldi" -> vivaldi(domains)
      [] fn = "opera" -> opera(domains)
      [] fn = "opera_gx" -> opera_gx(domains)
      [] fn = "octo_browser" -> octo_browser(domains)
      [] fn = "safari" -> safari(domains)
      [] fn = "internet_explorer" -> internet_explorer(domains)

----------------------------------------------------------------------------
(* lib.rs: load *)

browser_types ==
    <<"firefox", "libre_wolf", "opera", "edge", "chromium", "brave", "vivaldi">>
    \o (CASE os = "windows" -> <<"chrome", "opera_gx", "internet_explorer">>
          [] os = "linux" -> <<"chrome">>
          [] os = "macos" -> <<"opera_gx", "chrome", "safari">>)

\* load that forgets the filter when it calls the browsers.
load_domains_dropped(domains) == None

\* What load hands to each browser function.
load_domains(domains) == domains

\* browser_fn(domains.clone()).unwrap_or(vec![])
unwrap_or_empty(r) == IF r.ok THEN r.val ELSE <<>>

RECURSIVE load_loop(_, _, _, _)
load_loop(types, i, domains, acc) ==
    IF i > Len(types) THEN acc
    ELSE LET r == Invoke(types[i], load_domains(domains))
             ev == Event("call", types[i], NoKey, NoPath, load_domains(domains), r.ok)
         IN  load_loop(types, i + 1, domains,
                       Ok(acc.val \o unwrap_or_empty(r), acc.log \o <<ev>> \o r.log))

\* load with a failing browser lets the failure out (`?` for unwrap_or).
load_propagating(domains) ==
    LET r == load_loop(browser_types, 1, domains, Ok(<<>>, <<>>))
        bad == {i \in 1..Len(browser_types) : ~Invoke(browser_types[i], domains).ok}
    IN  IF bad = {} THEN r
        ELSE Err(Invoke(browser_types[CHOOSE i \in bad : \A j \in bad : i <= j], domains).err,
                 r.log)

load(domains) == load_loop(browser_types, 1, domains, Ok(<<>>, <<>>))

----------------------------------------------------------------------------
(* lib.rs: any_browser *)

Decoder(fn, key) == [fn |-> fn, key |-> key]

\* The Chromium configurations any_browser walks on unix.
chrome_configs ==
    <<CHROME_CONFIG, BRAVE_CONFIG, CHROMIUM_CONFIG, EDGE_CONFIG, OPERA_CONFIG,
      OPERA_GX_CONFIG, VIVALDI_CONFIG>>

\* any_browser with the Firefox step inside the non-unix branch.
any_browser_decoders_firefox_off_unix(key_path) ==
    (IF Unix
     THEN [i \in 1..Len(chrome_configs) |->
               Decoder("chromium_based", KeyConfig(chrome_configs[i]))]
     ELSE (IF key_path.some
           THEN <<Decoder("chromium_based", KeyPath(key_path.path))>>
           ELSE <<>>)
          \o <<Decoder("firefox_based", NoKey)>>)
    \o (CASE os = "windows" -> <<Decoder("internet_explorer_based", NoKey)>>
          [] os = "macos" -> <<Decoder("safari_based", NoKey)>>
          [] OTHER -> <<>>)

\* any_browser that prefers a supplied key_path on every target.
any_browser_decoders_key_first(key_path) ==
    (IF key_path.some
     THEN <<Decoder("chromium_based", KeyPath(key_path.path))>>
     ELSE IF Unix
          THEN [i \in 1..Len(chrome_configs) |->
                    Decoder("chromium_based", KeyConfig(chrome_configs[i]))]
          ELSE <<>>)
    \o <<Decoder("firefox_based", NoKey)>>
    \o (CASE os = "windows" -> <<Decoder("internet_explorer_based", NoKey)>>
          [] os = "macos" -> <<Decoder("safari_based", NoKey)>>
          [] OTHER -> <<>>)

\* The decoders any_browser is prepared to try, in the order of its code.
any_browser_decoders(key_path) ==
    (IF Unix
     THEN [i \in 1..Len(chrome_configs) |->
               Decoder("chromium_based", KeyConfig(chrome_configs[i]))]
     ELSE IF key_path.some
          THEN <<Decoder("chromium_based", KeyPath(key_path.path))>>
          ELSE <<>>)
    \o <<Decoder("firefox_based", NoKey)>>
    \o (CASE os = "windows" -> <<Decoder("internet_explorer_based", NoKey)>>
          [] os = "macos" -> <<Decoder("safari_based", NoKey)>>
          [] OTHER -> <<>>)

Decode(d, cookies_path, domains) ==
    CASE d.fn = "chromium_based" -> chromium_based(d.key, cookies_path, domains)
      [] d.fn = "firefox_based" -> firefox_based(cookies_path, domains)
      [] d.fn = "internet_explorer_based" -> internet_explorer_based(cookies_path, domains)
      [] d.fn = "safari_based" -> safari_based(cookies_path, domains)

\* A loop that remembers a success and keeps going (a missing `return`).
RECURSIVE try_decoders_last(_, _, _, _, _)
try_decoders_last(ds, i, cookies_path, domains, trace) ==
    IF i > Len(ds) THEN Err("cant find any cookies", trace)
    ELSE LET r == Decode(ds[i], cookies_path, domains)
             rest == try_decoders_last(ds, i + 1, cookies_path, domains, trace \o r.log)
         IN  IF rest.ok \/ ~r.ok THEN rest ELSE Ok(r.val, rest.log)

\* `if let Ok(cookies) = decoder(..) { return Ok(cookies); }`, one decoder after
\* the other, then bail!.
RECURSIVE try_decoders(_, _, _, _, _)
try_decoders(ds, i, cookies_path, domains, trace) ==
    IF i > Len(ds) THEN Err("cant find any cookies", trace)
    ELSE LET r == Decode(ds[i], cookies_path, domains)
         IN  IF r.ok THEN Ok(r.val, trace \o r.log)
             ELSE try_decoders(ds, i + 1, cookies_path, domains, trace \o r.log)

any_browser(cookies_path, domains, key_path) ==
    try_decoders(any_browser_decoders(key_path), 1, cookies_path, domains, <<>>)

----------------------------------------------------------------------------
(* lib.rs: the multi-profile variants *)

IsSpace(ch) == ch \in {" ", "\n", "\t", "\r"}

\* str::trim
RECURSIVE trim_start(_)
trim_start(s) == IF s # <<>> /\ IsSpace(Head(s)) THEN trim_start(Tail(s)) ELSE s

RECURSIVE trim_end(_)
trim_end(s) ==
    IF s # <<>> /\ IsSpace(s[Len(s)]) THEN trim_end(SubSeq(s, 1, Len(s) - 1)) ELSE s

trim(s) == trim_end(trim_start(s))

\* std::fs::read_to_string
read_to_string(p) ==
    IF Exists(p) /\ files[p].fmt = "text" THEN Ok(files[p].text, <<>>)
    ELSE Err("io", <<>>)

NoVersion == [some |-> FALSE, text |-> <<>>]

SomeVersion(t) == [some |-> TRUE, text |-> t]

\* The version file looked for next to the cookie store.
last_version_path_beside_store(paths) == Join(Parent(paths.db), "Last Version")

\* Where a profile's version file is looked for.
last_version_path(paths) == Join(Parent(paths.key), "Last Version")

last_version(paths) ==
    LET r == read_to_string(last_version_path(paths))
    IN  IF r.ok THEN SomeVersion(trim(r.val)) ELSE NoVersion

\* collect that builds the list back to front.
RECURSIVE v2_collect_reversed(_, _, _, _)
v2_collect_reversed(paths, i, domains, acc) ==
    IF i > Len(paths) THEN acc
    ELSE LET cookies == chromium_based(KeyPath(paths[i].key), paths[i].db, domains)
         IN  IF ~cookies.ok THEN Err(cookies.err, acc.log \o cookies.log)
             ELSE v2_collect_reversed(paths, i + 1, domains,
                      Ok(<<[cookies |-> cookies.val,
                            last_version |-> last_version(paths[i])]>> \o acc.val,
                         acc.log \o cookies.log))

\* collect that leaves a failing profile out (filter_map for map).
RECURSIVE v2_collect_skipping(_, _, _, _)
v2_collect_skipping(paths, i, domains, acc) ==
    IF i > Len(paths) THEN acc
    ELSE LET cookies == chromium_based(KeyPath(paths[i].key), paths[i].db, domains)
         IN  IF ~cookies.ok
             THEN v2_collect_skipping(paths, i + 1, domains,
                                      Ok(acc.val, acc.log \o cookies.log))
             ELSE v2_collect_skipping(paths, i + 1, domains,
                      Ok(Append(acc.val, [cookies |-> cookies.val,
                                          last_version |-> last_version(paths[i])]),
                         acc.log \o cookies.log))

\* paths.into_iter().map(|..| { chromium_based(..)?; .. }).collect::<Result<_>>()
RECURSIVE v2_collect(_, _, _, _)
v2_collect(paths, i, domains, acc) ==
    IF i > Len(paths) THEN acc
    ELSE LET cookies == chromium_based(KeyPath(paths[i].key), paths[i].db, domains)
         IN  IF ~cookies.ok THEN Err(cookies.err, acc.log \o cookies.log)
             ELSE v2_collect(paths, i + 1, domains,
                             Ok(Append(acc.val, [cookies |-> cookies.val,
                                                 last_version |-> last_version(paths[i])]),
                                acc.log \o cookies.log))

\* The body shared by chrome_v2, brave_v2 and edge_v2; the decoder gets the
\* key file's path on every target.
chromium_v2(config, domains) ==
    LET r == find_chrome_based_paths_v2(config)
    IN  IF ~r.ok THEN r
        ELSE After(r, v2_collect(r.val, 1, domains, Ok(<<>>, <<>>)))

chrome_v2(domains) == chromium_v2(CHROME_CONFIG, domains)

brave_v2(domains) == chromium_v2(BRAVE_CONFIG, domains)

edge_v2(domains) == chromium_v2(EDGE_CONFIG, domains)

----------------------------------------------------------------------------
(* Environments *)

NoCall == [op |-> "none", domains |-> None, path |-> NoPath, key_path |-> NonePath]

NoResult == [ok |-> TRUE, val |-> <<>>, err |-> ""]

Idle == call = NoCall /\ result = NoResult /\ log = <<>>

\* The rows a healthy store of configuration c holds (two samples, spread
\* over the browsers so that neighbours in load's list differ).
RowsOf(c) ==
    IF c \in {FIREFOX_CONFIG, OPERA_CONFIG, CHROMIUM_CONFIG, VIVALDI_CONFIG, OPERA_GX_CONFIG,
              SAFARI_CONFIG}
    THEN RowsA ELSE RowsB

StoreSamples(c) == {Junk} \cup {StoreOf(c, rows) : rows \in RowSamples}

KeyFileSample(c) == IF c \in ChromiumConfigs THEN LocalState ELSE Junk

InstalledFiles(S, store) ==
    [p \in UNION {{ProfilePaths(c, 1).key, ProfilePaths(c, 1).db} : c \in S} |->
        IF p.prof = 1 THEN store[p.cfg] ELSE KeyFileSample(p.cfg)]

\* A machine on which at most MaxInstalled browsers have a (single) profile;
\* its store is readable or damaged, its key is available.
Init ==
    /\ os \in OSes
    /\ \E S \in {T \in SUBSET Configs : Cardinality(T) <= MaxInstalled} :
           /\ candidates = [c \in Configs |-> IF c \in S THEN {1} ELSE {}]
           /\ \E damaged \in SUBSET S :
                  files = InstalledFiles(S, [c \in S |-> IF c \in damaged THEN Junk
                                                         ELSE StoreOf(c, RowsOf(c))])
    /\ keyring = ChromiumConfigs
    /\ Idle

\* A machine with no browser or a single one, with any of the sample stores
\* and with or without its key.
InitEntry ==
    /\ os \in OSes
    /\ \E S \in {{}} \cup {{c} : c \in Configs} :
           /\ candidates = [c \in Configs |-> IF c \in S THEN {1} ELSE {}]
           /\ \E store \in [S -> UNION {StoreSamples(c) : c \in S}] :
                  /\ \A c \in S : store[c] \in StoreSamples(c)
                  /\ files = InstalledFiles(S, store)
    /\ keyring \in {ChromiumConfigs, {}}
    /\ Idle

\* A machine with one file of any kind handed to any_browser, with or
\* without a key file next to it, and any state of the OS keystore.
UserPath == Path("user", 1, 1, "Cookies")

UserKey == Path("user", 1, 0, "Local State")

TableSamples ==
    {[t \in T |-> IF t = "cookies" THEN r[1] ELSE r[2]] :
        T \in SUBSET {"cookies", "moz_cookies"},
        r \in {RowsEmpty, RowsA} \X {RowsEmpty, RowsB}}

UserFileSamples ==
    {Sqlite(t) : t \in TableSamples}
    \cup {BinaryCookies(r) : r \in {RowsEmpty, RowsB}}
    \cup {WebCache(r) : r \in {RowsEmpty, RowsB}}
    \cup {Junk}

NoFiles == [p \in {} |-> Junk]

InitAny ==
    /\ os \in OSes
    /\ candidates = [c \in Configs |-> {}]
    /\ \E store \in {NoFiles} \cup {UserPath :> f : f \in UserFileSamples},
          key \in {NoFiles, UserKey :> LocalState, UserKey :> Junk} :
           files = store @@ key
    /\ keyring \in SUBSET ChromiumConfigs
    /\ Idle

\* A machine on which one of the browsers that have a multi-profile variant
\* has up to MaxProfiles profiles, each with a readable or damaged store and
\* with or without a version file in its user-data directory.
V2Configs == {CHROME_CONFIG, BRAVE_CONFIG, EDGE_CONFIG}

VersionSamples == {TextFile(<<"1">>), TextFile(<<" ", "2", "\n">>), Junk}

VersionPath(c, k) == Path(c, k, 0, "Last Version")

\* A profile: its store and whether its key file is there.
ProfileSamples(c) ==
    {[store |-> st, key |-> TRUE] : st \in StoreSamples(c)}
    \cup {[store |-> StoreOf(c, RowsA), key |-> FALSE]}

ProfileFiles(c, k, profile, version) ==
    (ProfilePaths(c, k).db :> profile.store)
    @@ (IF profile.key THEN ProfilePaths(c, k).key :> LocalState ELSE NoFiles)
    @@ (IF version = <<>> THEN NoFiles ELSE VersionPath(c, k) :> version[1])

RECURSIVE Merge(_, _)
Merge(f, ks) ==
    IF ks = {} THEN NoFiles
    ELSE LET k == CHOOSE x \in ks : TRUE IN f[k] @@ Merge(f, ks \ {k})

InitV2 ==
    /\ os \in OSes
    /\ \E c \in V2Configs, K \in SUBSET (1..MaxProfiles) :
           /\ candidates = [x \in Configs |-> IF x = c THEN K ELSE {}]
           /\ \E profile \in [K -> ProfileSamples(c)],
                 version \in [K -> {<<>>} \cup {<<v>> : v \in VersionSamples}] :
                  files = Merge([k \in K |-> ProfileFiles(c, k, profile[k], version[k])], K)
    /\ keyring = ChromiumConfigs
    /\ Idle

----------------------------------------------------------------------------
(* Actions: one per public function *)

Return(op, domains, path, key_path, r) ==
    /\ call' = [op |-> op, domains |-> domains, path |-> path, key_path |-> key_path]
    /\ result' = [ok |-> r.ok, val |-> r.val, err |-> r.err]
    /\ log' = r.log
    /\ UNCHANGED env

Entry(fn, domains) == Return(fn, domains, NoPath, NonePath, Invoke(fn, domains))

Firefox == \E d \in DomainArgs : Entry("firefox", d)

LibreWolf == \E d \in DomainArgs : Entry("libre_wolf", d)

Chrome == \E d \in DomainArgs : Entry("chrome", d)

Chromium == \E d \in DomainArgs : Entry("chromium", d)

Brave == \E d \in DomainArgs : Entry("brave", d)

Edge == \E d \in DomainArgs : Entry("edge", d)

Vivaldi == \E d \in DomainArgs : Entry("vivaldi", d)

Opera == \E d \in DomainArgs : Entry("opera", d)

OperaGx == \E d \in DomainArgs : Entry("opera_gx", d)

OctoBrowser == os = "windows" /\ \E d \in DomainArgs : Entry("octo_browser", d)

Safari == os = "macos" /\ \E d \in DomainArgs : Entry("safari", d)

InternetExplorer == os = "windows" /\ \E d \in DomainArgs : Entry("internet_explorer", d)

Load == \E d \in DomainArgs : Return("load", d, NoPath, NonePath, load(d))

\* The caller names a cookie store (one that exists, or UserPath) and
\* optionally the key file in the user-data directory above it.
CookiePaths == {p \in DOMAIN files : p.file = "Cookies"} \cup {UserPath}

KeyPathArgs(p) == {NonePath, SomePath(Path(p.cfg, p.dir, 0, "Local State"))}

AnyBrowser ==
    \E p \in CookiePaths, d \in DomainArgs :
        \E k \in KeyPathArgs(p) : Return("any_browser", d, p, k, any_browser(p, d, k))

ChromeV2 == \E d \in DomainArgs : Return("chrome_v2", d, NoPath, NonePath, chrome_v2(d))

BraveV2 == \E d \in DomainArgs : Return("brave_v2", d, NoPath, NonePath, brave_v2(d))

EdgeV2 == \E d \in DomainArgs : Return("edge_v2", d, NoPath, NonePath, edge_v2(d))

Next == Load \/ AnyBrowser

Spec == Init /\ [][Next]_vars

NextEntry ==
    \/ Firefox \/ LibreWolf \/ Chrome \/ Chromium \/ Brave \/ Edge \/ Vivaldi
    \/ Opera \/ OperaGx \/ OctoBrowser \/ Safari \/ InternetExplorer

SpecEntry == InitEntry /\ [][NextEntry]_vars

NextAny == AnyBrowser

SpecAny == InitAny /\ [][NextAny]_vars

NextV2 == ChromeV2 \/ BraveV2 \/ EdgeV2

SpecV2 == InitV2 /\ [][NextV2]_vars

----------------------------------------------------------------------------
(* Vocabulary of the properties *)

EntryOps ==
    {"firefox", "libre_wolf", "chrome", "chromium", "brave", "edge", "vivaldi",
     "opera", "opera_gx", "octo_browser", "safari", "internet_explorer"}

V2Ops == {"chrome_v2", "brave_v2", "edge_v2"}

RECURSIVE Flatten(_)
Flatten(ss) == IF ss = <<>> THEN <<>> ELSE Head(ss) \o Flatten(Tail(ss))

Indices(kind) == {i \in 1..Len(log) : log[i].kind = kind}

\* What one browser function gives its caller, errors read as "no cookies".
BrowserCookies(fn, d) == IF Invoke(fn, d).ok THEN Invoke(fn, d).val ELSE <<>>

\* The rows of the table a decoder reads in the store at p.
RawRows(fn, p) ==
    files[p].tables[CASE fn = "chromium_based" -> "cookies"
                      [] fn = "firefox_based" -> "moz_cookies"
                      [] fn = "safari_based" -> "pages"
                      [] fn = "internet_explorer_based" -> "CookieEntryEx"]

\* The filter rule as the interface states it: the domain is d, or ends with
\* d right after a ".".
ClaimMatch(H, d) ==
    \E k \in 0..Len(H) : SubSeq(H, k + 1, Len(H)) = d /\ (k = 0 \/ H[k] = ".")

----------------------------------------------------------------------------
(* C1 *)

\* C1: load always returns Ok, and its cookies are the cookie lists of the
\* browsers of its list, in the list's order, a failed browser counting as an
\* empty list; so Firefox's cookies when only Firefox succeeds, and nothing
\* when every browser fails.
C1_LoadConcatenates ==
    call.op = "load" =>
        LET n == Len(browser_types)
            okAt(i) == Invoke(browser_types[i], call.domains).ok
        IN  /\ result.ok
            /\ result.val =
                   Flatten([i \in 1..n |-> BrowserCookies(browser_types[i], call.domains)])
            /\ (\A i \in 1..n : okAt(i) <=> browser_types[i] = "firefox")
                   => result.val = BrowserCookies("firefox", call.domains)
            /\ (\A i \in 1..n : ~okAt(i)) => result.val = <<>>

\* load ran with two browsers that gave different, non-empty lists while
\* another one failed in its decoder or in its resolver.
C1_Witness ==
    /\ call.op = "load"
    /\ \E i, j \in 1..Len(browser_types) :
           /\ i < j
           /\ BrowserCookies(browser_types[i], call.domains) # <<>>
           /\ BrowserCookies(browser_types[j], call.domains) # <<>>
           /\ BrowserCookies(browser_types[i], call.domains)
                  # BrowserCookies(browser_types[j], call.domains)
    /\ \E k \in 1..Len(browser_types) : ~Invoke(browser_types[k], call.domains).ok

----------------------------------------------------------------------------
(* C6 *)

\* C6: load calls every single-profile function the library has on the target
\* OS, each exactly once.
C6_LoadCallsEveryExposed ==
    call.op = "load" =>
        \A fn \in Exposed :
            Cardinality({i \in Indices("call") : log[i].fn = fn}) = 1

----------------------------------------------------------------------------
(* C5 *)

\* C5: under a domains filter every cookie load or any_browser returns matches
\* an entry of the filter; every browser function and decoder they invoke got
\* the caller's filter as it was; and without a filter the cookies returned are
\* all the rows of the stores that were decoded.
C5_FilterReachesEveryDecoder ==
    (call.op \in {"load", "any_browser"} /\ result.ok) =>
        /\ call.domains.some =>
               \A i \in 1..Len(result.val) :
                   \E j \in 1..Len(call.domains.list) :
                       ClaimMatch(result.val[i].domain, call.domains.list[j])
        /\ \A i \in Indices("call") \cup Indices("decode") : log[i].domains = call.domains
        /\ ~call.domains.some =>
               result.val =
                   Flatten([i \in 1..Len(log) |->
                               IF log[i].kind = "decode" /\ log[i].okf
                               THEN RawRows(log[i].fn, log[i].path) ELSE <<>>])

\* load ran under a filter, returned cookies, and a decoded store held a row
\* the filter rejects.
C5_Witness ==
    /\ call.op = "load"
    /\ call.domains.some
    /\ result.val # <<>>
    /\ \E i \in Indices("decode") :
           /\ log[i].okf
           /\ \E r \in 1..Len(RawRows(log[i].fn, log[i].path)) :
                  ~\E j \in 1..Len(call.domains.list) :
                      ClaimMatch(RawRows(log[i].fn, log[i].path)[r].domain,
                                 call.domains.list[j])

----------------------------------------------------------------------------
(* C8 *)

\* The configuration each entry point resolves.
ResolvedConfig(op) ==
    CASE op = "firefox" -> FIREFOX_CONFIG
      [] op = "libre_wolf" -> LIBRE_WOLF_CONFIG
      [] op = "chrome" -> CHROME_CONFIG
      [] op = "chromium" -> CHROMIUM_CONFIG
      [] op = "brave" -> BRAVE_CONFIG
      [] op = "edge" -> EDGE_CONFIG
      [] op = "vivaldi" -> VIVALDI_CONFIG
      [] op = "opera" -> OPERA_CONFIG
      [] op = "opera_gx" -> OPERA_GX_CONFIG
      [] op = "octo_browser" -> OPERA_GX_CONFIG
      [] op = "safari" -> SAFARI_CONFIG
      [] op = "internet_explorer" -> IE_CONFIG

\* C8: a single-profile entry point whose resolver finds no candidate fails
\* with PathNotFound without invoking a decoder; a decoder is invoked only
\* after a successful resolution.
C8_NoDecodeWithoutPath ==
    call.op \in EntryOps =>
        /\ candidates[ResolvedConfig(call.op)] = {} =>
               /\ ~result.ok
               /\ result.err = "PathNotFound"
               /\ Indices("decode") = {}
        /\ \A j \in Indices("decode") :
               \E i \in Indices("resolve") :
                   i < j /\ log[i].okf /\ log[i].key.cfg = ResolvedConfig(call.op)

\* A Chromium-family entry point was called on a machine without that browser.
C8_Witness ==
    /\ call.op \in {"chrome", "opera_gx", "octo_browser"}
    /\ candidates[ResolvedConfig(call.op)] = {}
    /\ ~result.ok

----------------------------------------------------------------------------
(* C2 *)

\* The place of a decoder in the order of the interface: Chromium, then
\* Firefox, then the decoder of the OS.
Rank(fn) == CASE fn = "chromium_based" -> 1 [] fn = "firefox_based" -> 2 [] OTHER -> 3

OsDecoders ==
    CASE os = "windows" -> {"internet_explorer_based"}
      [] os = "macos" -> {"safari_based"}
      [] OTHER -> {}

Tried(fn) == \E i \in 1..Len(log) : log[i].fn = fn

\* C2: any_browser runs decoders on cookies_path in the order Chromium,
\* Firefox, OS decoder, each at most once; it stops at the first that succeeds
\* and returns that decoder's list, empty or not; it fails, with its own error
\* and never a decoder's, exactly when every decoder was tried and failed.
C2_FirstDecoderWins ==
    call.op = "any_browser" =>
        LET n == Len(log)
        IN  /\ \A i \in 1..n :
                   /\ log[i].kind = "decode"
                   /\ log[i].path = call.path
                   /\ log[i].fn \in {"chromium_based", "firefox_based"} \cup OsDecoders
            /\ \A i, j \in 1..n : i < j =>
                   /\ Rank(log[i].fn) <= Rank(log[j].fn)
                   /\ <<log[i].fn, log[i].key>> # <<log[j].fn, log[j].key>>
            /\ \A i \in 1..n : i < n => ~log[i].okf
            /\ result.ok <=> (n > 0 /\ log[n].okf)
            /\ result.ok =>
                   result.val =
                       Decode(Decoder(log[n].fn, log[n].key), call.path, call.domains).val
            /\ ~result.ok =>
                   /\ result.err = "cant find any cookies"
                   /\ Tried("firefox_based")
                   /\ \A fn \in OsDecoders : Tried(fn)
                   /\ (Unix \/ call.key_path.some) => Tried("chromium_based")

\* A Chromium decoder succeeded with an empty list, after another decoder had
\* failed, on a file the Firefox decoder would have read cookies from.
C2_Witness ==
    /\ call.op = "any_browser"
    /\ result.ok
    /\ result.val = <<>>
    /\ Len(log) >= 2
    /\ log[Len(log)].fn = "chromium_based"
    /\ firefox_based(call.path, call.domains).ok
    /\ firefox_based(call.path, call.domains).val # <<>>

----------------------------------------------------------------------------
(* C7 *)

\* A Firefox cookies.sqlite: an SQLite file whose only cookie table is
\* moz_cookies.
IsFirefoxStore(p) ==
    Exists(p) /\ files[p].fmt = "sqlite" /\ DOMAIN files[p].tables = {"moz_cookies"}

\* C7: any_browser without key_path on a Firefox cookies.sqlite succeeds, on
\* every OS, with the cookies of the Firefox decoder.
C7_FirefoxStoreWithoutKey ==
    (call.op = "any_browser" /\ ~call.key_path.some /\ IsFirefoxStore(call.path)) =>
        /\ result.ok
        /\ log[Len(log)].fn = "firefox_based"
        /\ log[Len(log)].okf
        /\ result.val = FilterRows(files[call.path].tables["moz_cookies"], call.domains)

\* The call went through failing Chromium decoders first and returned cookies.
C7_Witness ==
    /\ call.op = "any_browser"
    /\ ~call.key_path.some
    /\ IsFirefoxStore(call.path)
    /\ Len(log) > 1
    /\ keyring # {}
    /\ result.val # <<>>

----------------------------------------------------------------------------
(* C10 *)

ChromiumAttempts == SelectSeq(log, LAMBDA e : e.fn = "chromium_based")

ClaimChromiumOrder ==
    <<"chrome", "brave", "chromium", "edge", "opera", "opera_gx", "vivaldi">>

\* On windows the Chromium decoder runs iff key_path is given, with that path.
WindowsKeyRule ==
    /\ (ChromiumAttempts # <<>>) <=> call.key_path.some
    /\ Len(ChromiumAttempts) <= 1
    /\ \A i \in 1..Len(ChromiumAttempts) :
           ChromiumAttempts[i].key = KeyPath(call.key_path.path)

\* C10 as stated: on windows the key rule; on unix one Chromium attempt per
\* built-in configuration, in the order Chrome, Brave, Chromium, Edge, Opera,
\* Opera GX, Vivaldi, with or without key_path.
C10_AsStated ==
    call.op = "any_browser" =>
        IF os = "windows" THEN WindowsKeyRule
        ELSE [i \in 1..Len(ChromiumAttempts) |-> ChromiumAttempts[i].key]
                 = [i \in 1..Len(ClaimChromiumOrder) |-> KeyConfig(ClaimChromiumOrder[i])]

\* C10 amended: on unix the attempts follow that order, one per
\* configuration, up to and including the first that succeeds (all seven when
\* none does), and are the same with and without key_path.
C10_ChromiumAttempts ==
    call.op = "any_browser" =>
        IF os = "windows" THEN WindowsKeyRule
        ELSE LET n == Len(ChromiumAttempts)
             IN  /\ n \in 1..Len(ClaimChromiumOrder)
                 /\ \A i \in 1..n :
                        /\ ChromiumAttempts[i].key = KeyConfig(ClaimChromiumOrder[i])
                        /\ i < n => ~ChromiumAttempts[i].okf
                 /\ n < Len(ClaimChromiumOrder) => ChromiumAttempts[n].okf
                 /\ \A k \in {NonePath, SomePath(UserKey)} :
                        any_browser(call.path, call.domains, k).log = log

\* On unix, with a key_path, the walk stopped at a configuration in the middle
\* of the list.
C10_Witness ==
    /\ call.op = "any_browser"
    /\ Unix
    /\ call.key_path.some
    /\ Len(ChromiumAttempts) \in 2..6
    /\ ChromiumAttempts[Len(ChromiumAttempts)].okf

----------------------------------------------------------------------------
(* C3, C4, C9 *)

V2Config(op) ==
    CASE op = "chrome_v2" -> CHROME_CONFIG
      [] op = "brave_v2" -> BRAVE_CONFIG
      [] op = "edge_v2" -> EDGE_CONFIG

\* The user-data directory of the i-th profile in path order.
NthProfile(c, i) ==
    CHOOSE k \in candidates[c] : Cardinality({x \in candidates[c] : x < k}) = i - 1

Readable(p) == Exists(p) /\ files[p].fmt = "text"

\* Extraction of the profile in directory k.
Extraction(c, k, d) == chromium_based(KeyPath(ProfilePaths(c, k).key), ProfilePaths(c, k).db, d)

DecodesFine(c, k) == Extraction(c, k, None).ok

\* t is s without the white space at its two ends.
Stripped(s, t) ==
    \E i \in 1..Len(s) + 1, j \in 0..Len(s) :
        /\ t = SubSeq(s, i, j)
        /\ \A x \in 1..Len(s) : (x < i \/ x > j) => IsSpace(s[x])
        /\ t # <<>> => ~IsSpace(t[1]) /\ ~IsSpace(t[Len(t)])

\* C3 as stated: each pair's last_version is the contents of the profile's
\* Last Version file when it can be read and None when it cannot, and the
\* file never decides whether the call succeeds.
C3_AsStated ==
    call.op \in V2Ops =>
        LET c == V2Config(call.op)
        IN  /\ result.ok =>
                   \A i \in 1..Len(result.val) :
                       LET p == VersionPath(c, NthProfile(c, i))
                       IN  result.val[i].last_version =
                               IF Readable(p) THEN SomeVersion(files[p].text) ELSE NoVersion
            /\ (candidates[c] # {} /\ \A k \in candidates[c] : DecodesFine(c, k)) => result.ok

\* C3 amended: last_version is the contents, without the white space at their
\* two ends, of the Last Version file in the directory of the profile's key
\* file.
C3_LastVersionTrimmed ==
    call.op \in V2Ops =>
        LET c == V2Config(call.op)
        IN  /\ result.ok =>
                   \A i \in 1..Len(result.val) :
                       LET p == VersionPath(c, NthProfile(c, i))
                           v == result.val[i].last_version
                       IN  /\ v.some <=> Readable(p)
                           /\ v.some => Stripped(files[p].text, v.text)
                           /\ ~v.some => v = NoVersion
            /\ (candidates[c] # {} /\ \A k \in candidates[c] : DecodesFine(c, k)) => result.ok

\* A call returned one version that trim shortened and one profile without a
\* readable version file.
C3_Witness ==
    /\ call.op \in V2Ops
    /\ result.ok
    /\ \E i, j \in 1..Len(result.val) :
           /\ result.val[i].last_version.some
           /\ files[VersionPath(V2Config(call.op), NthProfile(V2Config(call.op), i))].text
                  # result.val[i].last_version.text
           /\ ~result.val[j].last_version.some

\* C4: a successful multi-profile call returns one entry per resolved
\* profile, the i-th holding the cookies of the i-th profile in path order and
\* of no other.
C4_OneEntryPerProfile ==
    (call.op \in V2Ops /\ result.ok) =>
        LET c == V2Config(call.op)
        IN  /\ Len(result.val) = Cardinality(candidates[c])
            /\ \A i \in 1..Len(result.val) :
                   result.val[i].cookies =
                       FilterRows(files[ProfilePaths(c, NthProfile(c, i)).db].tables["cookies"],
                                  call.domains)
            /\ \A i, j \in 1..Len(result.val) : i < j =>
                   PathLess(ProfilePaths(c, NthProfile(c, i)).db,
                            ProfilePaths(c, NthProfile(c, j)).db)

\* A call returned two profiles whose cookies differ.
C4_Witness ==
    /\ call.op \in V2Ops
    /\ result.ok
    /\ Len(result.val) >= 2
    /\ result.val[1].cookies # result.val[2].cookies
    /\ result.val[1].cookies # <<>>

Failing(c) == {k \in candidates[c] : ~DecodesFine(c, k)}

\* C9 as stated: when a resolved profile fails, the cookies of the others are
\* still returned.
C9_AsStated ==
    (call.op \in V2Ops /\ Failing(V2Config(call.op)) # {}) =>
        LET c == V2Config(call.op)
        IN  /\ result.ok
            /\ \A k \in candidates[c] \ Failing(c) :
                   \E i \in 1..Len(result.val) :
                       result.val[i].cookies =
                           FilterRows(files[ProfilePaths(c, k).db].tables["cookies"],
                                      call.domains)

\* C9 amended: when a resolved profile fails the whole call fails, with the
\* error of the first failing profile in path order; nothing is returned and
\* no later profile is decoded.
C9_FirstFailureFailsCall ==
    call.op \in V2Ops =>
        LET c == V2Config(call.op)
            decoded == [i \in 1..Cardinality(Indices("decode")) |->
                           SelectSeq(log, LAMBDA e : e.kind = "decode")[i].path]
        IN  /\ (candidates[c] # {} /\ Failing(c) = {}) <=> result.ok
            /\ Failing(c) # {} =>
                   LET f == CHOOSE k \in Failing(c) : \A x \in Failing(c) : k <= x
                   IN  /\ ~result.ok
                       /\ result.val = <<>>
                       /\ result.err = Extraction(c, f, call.domains).err
                       /\ result.err \in {"StoreCorrupt", "KeyNotFound"}
                       /\ decoded = [i \in 1..Cardinality({x \in candidates[c] : x <= f}) |->
                                        ProfilePaths(c, NthProfile(c, i)).db]

\* The first profile was decoded, the second failed, and the call failed.
C9_Witness ==
    /\ call.op \in V2Ops
    /\ ~result.ok
    /\ Len(log) = 3
    /\ log[2].kind = "decode" /\ log[2].okf
    /\ log[3].kind = "decode" /\ ~log[3].okf

====
